---- MODULE Spec2Model ----
(***************************************************************************)
(* Model of .github/scripts/extract_fqdns.py: the walk over apps/, the     *)
(* YAML document loader, the recursive FQDN extractor, the validity        *)
(* filter, and the synthesis of the Gatus endpoints file.                  *)
(*                                                                         *)
(* A Python str is a sequence of one-character strings, so that `in`,      *)
(* startswith, lower, split, strip and replace are computed character by   *)
(* character.  Mapping keys are only ever compared with literals by the    *)
(* script and stay TLA+ strings.                                           *)
(***************************************************************************)
EXTENDS Integers, Sequences, FiniteSets, TLC

VARIABLES
    apps_exists,     \* Path("apps").exists()
    tree,            \* the files below apps/ (unchanged by the script)
    pc,              \* position of main: start, walk, done, returned
    pattern,         \* index into yaml_patterns of the glob pass going on
    visited,         \* files the glob pass going on has already yielded
    all_fqdns,       \* main's all_fqdns
    unique_fqdns,    \* main's unique_fqdns
    endpoints_list,  \* main's endpoints_list
    output,          \* gatus-endpoints.yml on disk
    written,         \* this run has written gatus-endpoints.yml
    stdout,          \* what this run has printed (kinds of message)
    clock,           \* datetime.now(), one tick per run
    run,             \* number of the run of the script going on
    prev_run,        \* what the previous run left: the file, its unique_fqdns
    u_in,            \* unit harness: the call (function and arguments)
    u_out,           \* unit harness: the value returned
    u_pc             \* unit harness: call, ret

vars == <<apps_exists, tree, pc, pattern, visited, all_fqdns, unique_fqdns,
          endpoints_list, output, written, stdout, clock, run, prev_run,
          u_in, u_out, u_pc>>

pipeline_vars == <<apps_exists, tree, pc, pattern, visited, all_fqdns,
                   unique_fqdns, endpoints_list, output, written, stdout,
                   clock, run, prev_run>>

unit_vars == <<u_in, u_out, u_pc>>

(***************************************************************************)
(* Bounds of the model.                                                    *)
(***************************************************************************)
\* files in the tree below apps/
MaxFiles == 3
\* runs of the script over the same tree
MaxRuns == 2
\* fragments concatenated into a candidate string handed to the filter
MaxFrags == 2
\* fragments concatenated into an FQDN handed to create_simple_endpoint
MaxLabels == 3
\* fragments concatenated into the text of an inline patch
MaxPatchFrags == 3

(***************************************************************************)
(* Python str                                                              *)
(***************************************************************************)
\* The characters used, in code point order (str comparison is by code point).
Chars ==
    <<"\t", "\n", " ", "$", "(", ")", "-", ".", "/",
      "0", "1", "2", "3", "4", "5", "6", "7", "8", "9", ":", "<", "=", "@",
      "A", "B", "C", "D", "E", "F", "G", "H", "I", "J", "K", "L", "M",
      "N", "O", "P", "Q", "R", "S", "T", "U", "V", "W", "X", "Y", "Z",
      "[", "\\", "]", "_",
      "a", "b", "c", "d", "e", "f", "g", "h", "i", "j", "k", "l", "m",
      "n", "o", "p", "q", "r", "s", "t", "u", "v", "w", "x", "y", "z",
      "{", "}">>

CharSet == {Chars[i] : i \in 1..Len(Chars)}

Ord == [c \in CharSet |-> CHOOSE i \in 1..Len(Chars) : Chars[i] = c]

UpperCase == <<"A","B","C","D","E","F","G","H","I","J","K","L","M","N","O","P","Q","R","S","T","U","V","W","X","Y","Z">>
LowerCase == <<"a","b","c","d","e","f","g","h","i","j","k","l","m","n","o","p","q","r","s","t","u","v","w","x","y","z">>

\* str.lower() on one character
LowerChar(c) ==
    IF \E i \in 1..Len(UpperCase) : UpperCase[i] = c
    THEN LowerCase[CHOOSE i \in 1..Len(UpperCase) : UpperCase[i] = c]
    ELSE c

\* s.lower()
Lower(s) == [i \in 1..Len(s) |-> LowerChar(s[i])]

\* s.startswith(p)
StartsWith(s, p) == Len(p) <= Len(s) /\ SubSeq(s, 1, Len(p)) = p

\* s.endswith(p), as fnmatch of "*" followed by p
EndsWith(s, p) == Len(p) <= Len(s) /\ SubSeq(s, Len(s) - Len(p) + 1, Len(s)) = p

\* sub in s
In(sub, s) ==
    \E i \in 1..(Len(s) - Len(sub) + 1) : SubSeq(s, i, i + Len(sub) - 1) = sub

\* s.find(sub): first index (1-based) of sub in s, 0 when absent
Find(s, sub) ==
    IF In(sub, s)
    THEN CHOOSE i \in 1..(Len(s) - Len(sub) + 1) :
            /\ SubSeq(s, i, i + Len(sub) - 1) = sub
            /\ \A j \in 1..(i - 1) : SubSeq(s, j, j + Len(sub) - 1) # sub
    ELSE 0

\* s.split(sep) for a non-empty sep
RECURSIVE Split(_, _)
Split(s, sep) ==
    LET i == Find(s, sep)
    IN  IF i = 0 THEN <<s>>
        ELSE <<SubSeq(s, 1, i - 1)>> \o Split(SubSeq(s, i + Len(sep), Len(s)), sep)

\* s.replace(old, "") for a non-empty old: every non-overlapping occurrence,
\* left to right, is removed
RECURSIVE ReplaceAll(_, _, _)
ReplaceAll(s, old, new) ==
    LET i == Find(s, old)
    IN  IF i = 0 THEN s
        ELSE SubSeq(s, 1, i - 1) \o new
                \o ReplaceAll(SubSeq(s, i + Len(old), Len(s)), old, new)

Whitespace == {" ", "\t", "\n"}

\* s.strip()
RECURSIVE Strip(_)
Strip(s) ==
    IF s = <<>> THEN s
    ELSE IF s[1] \in Whitespace THEN Strip(Tail(s))
    ELSE IF s[Len(s)] \in Whitespace THEN Strip(SubSeq(s, 1, Len(s) - 1))
    ELSE s

\* a < b on str: lexicographic by code point, a proper prefix first
StrLess(a, b) ==
    \E i \in 1..Len(b) :
        /\ i <= Len(a) + 1
        /\ SubSeq(a, 1, i - 1) = SubSeq(b, 1, i - 1)
        /\ (i = Len(a) + 1 \/ Ord[a[i]] < Ord[b[i]])

\* sep.join(parts)
RECURSIVE Join(_, _)
Join(parts, sep) ==
    IF parts = <<>> THEN <<>>
    ELSE IF Len(parts) = 1 THEN parts[1]
    ELSE parts[1] \o sep \o Join(Tail(parts), sep)

\* the elements of a sequence
Range(seq) == {seq[i] : i \in 1..Len(seq)}

\* the concatenation of a sequence of sequences
RECURSIVE Flatten(_)
Flatten(seqs) ==
    IF seqs = <<>> THEN <<>> ELSE seqs[1] \o Flatten(Tail(seqs))

(***************************************************************************)
(* Parsed YAML: a tagged value.                                            *)
(*   [t |-> "str", s |-> chars]       a string scalar                      *)
(*   [t |-> "null"]                   an empty document / null             *)
(*   [t |-> "map", items |-> <<[k |-> key, v |-> value], ...>>]            *)
(*   [t |-> "seq", items |-> <<value, ...>>]                               *)
(***************************************************************************)
Str(s) == [t |-> "str", s |-> s]
Null == [t |-> "null"]
Map(items) == [t |-> "map", items |-> items]
Seq1(items) == [t |-> "seq", items |-> items]
KV(k, v) == [k |-> k, v |-> v]

\* Python truthiness of a parsed document (`if doc:`)
Truthy(doc) ==
    CASE doc.t = "null" -> FALSE
      [] doc.t = "str" -> doc.s # <<>>
      [] OTHER -> doc.items # <<>>

(***************************************************************************)
(* is_valid_fqdn                                                           *)
(***************************************************************************)
docker_registries == <<<<"g","h","c","r",".","i","o">>, <<"d","o","c","k","e","r",".","i","o">>, <<"r","e","g","i","s","t","r","y",".","k","8","s",".","i","o">>, <<"q","u","a","y",".","i","o">>>>

invalid_patterns ==
    <<<<"e","x","a","m","p","l","e",".","c","o","m">>, <<"e","x","a","m","p","l","e",".","l","o","c","a","l">>, <<"c","h","a","r","t","-","e","x","a","m","p","l","e",".","l","o","c","a","l">>, <<"l","o","c","a","l","h","o","s","t">>,
      <<"1","2","7",".","0",".","0",".","1">>, <<"0",".","0",".","0",".","0">>, <<".","l","o","c","a","l">>, <<"e","x","a","m","p","l","e",".","o","r","g">>, <<"t","e","s","t",".","c","o","m">>>>

\* the deny-list test without lower(): a plausible slip
is_valid_fqdn_case_sensitive(fqdn) ==
    IF In(<<"@">>, fqdn) THEN FALSE
    ELSE IF \E i \in 1..Len(docker_registries) :
                StartsWith(fqdn, docker_registries[i]) THEN FALSE
    ELSE IF \E i \in 1..Len(invalid_patterns) :
                In(invalid_patterns[i], fqdn) THEN FALSE
    ELSE IF \/ ~In(<<".">>, fqdn)
            \/ In(<<"{">>, fqdn)
            \/ In(<<"}">>, fqdn)
            \/ StartsWith(fqdn, <<"{","{">>)
            \/ In(<<"$","(">>, fqdn) THEN FALSE
    ELSE TRUE

is_valid_fqdn(fqdn) ==
    IF In(<<"@">>, fqdn) THEN FALSE
    ELSE IF \E i \in 1..Len(docker_registries) :
                StartsWith(fqdn, docker_registries[i]) THEN FALSE
    ELSE IF LET fqdn_lower == Lower(fqdn)
            IN  \E i \in 1..Len(invalid_patterns) :
                    In(invalid_patterns[i], fqdn_lower) THEN FALSE
    ELSE IF \/ ~In(<<".">>, fqdn)
            \/ In(<<"{">>, fqdn)
            \/ In(<<"}">>, fqdn)
            \/ StartsWith(fqdn, <<"{","{">>)
            \/ In(<<"$","(">>, fqdn) THEN FALSE
    ELSE TRUE

(***************************************************************************)
(* extract_fqdn_recursive                                                  *)
(***************************************************************************)
\* the test every branch applies to a string before appending it
string_rule(value) ==
    In(<<".">>, value) /\ ~StartsWith(value, <<"h","t","t","p">>) /\ is_valid_fqdn(value)

\* the loop over the items of a list under `hosts` / `dnsNames`
hosts_rule(items) ==
    LET F[i \in 0..Len(items)] ==
            IF i = 0 THEN <<>>
            ELSE IF items[i].t = "str" /\ string_rule(items[i].s)
                 THEN Append(F[i - 1], items[i].s)
                 ELSE F[i - 1]
    IN  F[Len(items)]

\* one line of an inline patch: the candidates it appends
patch_line(raw) ==
    LET line == Strip(raw)
    IN  IF StartsWith(line, <<"v","a","l","u","e",":"," ">>)
        THEN LET potential_fqdn == Strip(ReplaceAll(line, <<"v","a","l","u","e",":"," ">>, <<>>))
             IN  IF string_rule(potential_fqdn) THEN <<potential_fqdn>> ELSE <<>>
        ELSE <<>>

\* the loop over the lines of an inline patch
patch_rule(value) ==
    LET lines == Split(value, <<"\n">>)
    IN  Flatten([i \in 1..Len(lines) |-> patch_line(lines[i])])

RECURSIVE extract_fqdn_recursive(_, _, _)

\* the if / elif chain applied to one (key, value) of a mapping
key_rule(key, value, is_ingress_context, is_kustomization_context) ==
    IF key \in {"host", "commonName"} /\ value.t = "str"
    THEN IF string_rule(value.s) THEN <<value.s>> ELSE <<>>
    ELSE IF key \in {"hosts", "dnsNames"} /\ value.t = "seq"
    THEN hosts_rule(value.items)
    ELSE IF key = "value" /\ value.t = "str" /\ is_kustomization_context
    THEN IF string_rule(value.s) THEN <<value.s>> ELSE <<>>
    ELSE IF key = "patch" /\ value.t = "str" /\ is_kustomization_context
    THEN patch_rule(value.s)
    ELSE IF key = "path" /\ value.t = "str"
    THEN <<>>
    ELSE extract_fqdn_recursive(value, is_ingress_context,
                                is_kustomization_context)

\* a descent that visits only the first element of a sequence: a plausible slip
extract_first_element_only(obj, is_ingress_context, is_kustomization_context) ==
    IF obj.t = "map"
    THEN Flatten([i \in 1..Len(obj.items) |->
                    key_rule(obj.items[i].k, obj.items[i].v,
                             is_ingress_context, is_kustomization_context)])
    ELSE IF obj.t = "seq" /\ obj.items # <<>>
    THEN extract_fqdn_recursive(obj.items[1], is_ingress_context,
                                is_kustomization_context)
    ELSE <<>>

extract_fqdn_recursive(obj, is_ingress_context, is_kustomization_context) ==
    IF obj.t = "map"
    THEN Flatten([i \in 1..Len(obj.items) |->
                    key_rule(obj.items[i].k, obj.items[i].v,
                             is_ingress_context, is_kustomization_context)])
    ELSE IF obj.t = "seq"
    THEN Flatten([i \in 1..Len(obj.items) |->
                    extract_fqdn_recursive(obj.items[i], is_ingress_context,
                                           is_kustomization_context)])
    ELSE <<>>

(***************************************************************************)
(* find_fqdn_in_yaml                                                       *)
(*                                                                         *)
(* A file is [parts |-> path segments, stream |-> what the lazy            *)
(* yaml.safe_load_all generator yields, in order: parsed documents, and    *)
(* ParseError where asking for the next document raises (open() raising    *)
(* is a stream that starts with ParseError)].                              *)
(***************************************************************************)
ParseError == [t |-> "error"]

\* str(file_path)
PathStr(file) == Join(file.parts, <<"/">>)

\* file_path.name
BaseName(file) == file.parts[Len(file.parts)]

is_ingress_context(file) == In(<<"i","n","g","r","e","s","s",".","y","a","m","l">>, Lower(PathStr(file)))

is_kustomization_context(file) == In(<<"k","u","s","t","o","m","i","z","a","t","i","o","n",".","y","a","m","l">>, Lower(PathStr(file)))

is_template(file) ==
    In(<<"/","t","e","m","p","l","a","t","e","s","/">>, PathStr(file)) \/ In(<<"\t","e","m","p","l","a","t","e","s","\\">>, PathStr(file))

\* the exception is raised while the for loop asks for its next document
raises(file) == \E i \in 1..Len(file.stream) : file.stream[i] = ParseError

\* the documents the for loop gets before the generator ends or raises
documents(file) ==
    LET n == IF raises(file)
             THEN (CHOOSE i \in 1..Len(file.stream) :
                     /\ file.stream[i] = ParseError
                     /\ \A j \in 1..(i - 1) : file.stream[j] # ParseError) - 1
             ELSE Len(file.stream)
    IN  SubSeq(file.stream, 1, n)

find_fqdn_in_yaml(file) ==
    IF is_template(file) THEN <<>>
    ELSE LET docs == documents(file)
         IN  Flatten([i \in 1..Len(docs) |->
                        IF Truthy(docs[i])
                        THEN extract_fqdn_recursive(docs[i],
                                is_ingress_context(file),
                                is_kustomization_context(file))
                        ELSE <<>>])

(***************************************************************************)
(* create_simple_endpoint                                                  *)
(***************************************************************************)
\* naming without the prodv2 suffix: a plausible slip
create_simple_endpoint_no_suffix(fqdn, app_name, source_file) ==
    [name |-> Split(fqdn, <<".">>)[1],
     url |-> <<"h","t","t","p","s",":","/","/">> \o fqdn,
     interval |-> <<"5","m">>,
     conditions |-> <<<<"[","S","T","A","T","U","S","]"," ","=","="," ","2","0","0">>, <<"[","R","E","S","P","O","N","S","E","_","T","I","M","E","]"," ","<"," ","3","0","0","0">>>>,
     alerts |-> <<[type |-> <<"d","i","s","c","o","r","d">>, failure_threshold |-> 3,
                   success_threshold |-> 2]>>]

create_simple_endpoint(fqdn, app_name, source_file) ==
    LET subdomain == Split(fqdn, <<".">>)[1]
        endpoint_name == IF In(<<"p","r","o","d","v","2">>, fqdn)
                         THEN subdomain \o <<"-","p","r","o","d">>
                         ELSE subdomain
    IN  [name |-> endpoint_name,
         url |-> <<"h","t","t","p","s",":","/","/">> \o fqdn,
         interval |-> <<"5","m">>,
         conditions |-> <<<<"[","S","T","A","T","U","S","]"," ","=","="," ","2","0","0">>, <<"[","R","E","S","P","O","N","S","E","_","T","I","M","E","]"," ","<"," ","3","0","0","0">>>>,
         alerts |-> <<[type |-> <<"d","i","s","c","o","r","d">>, failure_threshold |-> 3,
                       success_threshold |-> 2]>>]

(***************************************************************************)
(* main                                                                    *)
(***************************************************************************)
yaml_patterns == <<<<".","y","a","m","l">>, <<".","y","m","l">>>>

\* apps_dir.glob("**/*.yaml") / ("**/*.yml"): the files the pass yields
Matching(p) == {f \in tree : EndsWith(BaseName(f), yaml_patterns[p])}

\* the app name main derives from the path segments
app_name_of(file) ==
    LET path_parts == file.parts
    IN  IF Len(path_parts) >= 2
        THEN IF Len(path_parts) >= 3 /\ path_parts[3] \notin {<<"b","a","s","e">>, <<"p","r","o","d">>}
             THEN path_parts[2] \o <<"-">> \o path_parts[3]
             ELSE path_parts[2]
        ELSE <<"u","n","k","n","o","w","n">>

\* the endpoint_info records main appends for one file
endpoint_infos(file) ==
    LET fqdns == find_fqdn_in_yaml(file)
    IN  [i \in 1..Len(fqdns) |->
            [fqdn |-> fqdns[i], source_file |-> PathStr(file),
             app_name |-> app_name_of(file)]]

\* a deduplication that keeps the last occurrence: a plausible slip
dedup_keep_last(all) ==
    LET F[i \in 0..Len(all)] ==
            IF i = 0 THEN <<>>
            ELSE Append(SelectSeq(F[i - 1], LAMBDA e : e.fqdn # all[i].fqdn),
                        all[i])
    IN  F[Len(all)]

\* the seen_fqdns loop: the first occurrence of every fqdn, in order
dedup(all) ==
    LET F[i \in 0..Len(all)] ==
            IF i = 0 THEN <<>>
            ELSE LET unique == F[i - 1]
                     seen_fqdns == {unique[j].fqdn : j \in 1..Len(unique)}
                 IN  IF all[i].fqdn \notin seen_fqdns
                     THEN Append(unique, all[i])
                     ELSE unique
    IN  F[Len(all)]

\* no sort at all: a plausible slip
sort_by_fqdn_omitted(seq) == seq

\* list.sort(key=lambda x: x["fqdn"]): a stable sort, as insertion sort
sort_by_fqdn(seq) ==
    LET Insert(sorted, x) ==
            LET k == Cardinality({j \in 1..Len(sorted) :
                                    ~StrLess(x.fqdn, sorted[j].fqdn)})
            IN  SubSeq(sorted, 1, k) \o <<x>> \o SubSeq(sorted, k + 1, Len(sorted))
        F[i \in 0..Len(seq)] ==
            IF i = 0 THEN <<>> ELSE Insert(F[i - 1], seq[i])
    IN  F[Len(seq)]

NoFile == [exists |-> FALSE]

NoRun == [output |-> NoFile, unique_fqdns |-> <<>>]

Msg(kind, file) == [msg |-> kind, file |-> file]

\* `if not apps_dir.exists(): print(...); return`
ReturnEarly ==
    /\ pc = "start"
    /\ ~apps_exists
    /\ stdout' = stdout \cup {Msg("missing_root", <<>>)}
    /\ pc' = "returned"
    /\ UNCHANGED <<apps_exists, tree, pattern, visited, all_fqdns, unique_fqdns,
                   endpoints_list, output, written, clock, run, prev_run>>

\* apps/ exists: all_fqdns = [], and the first glob pass begins
BeginWalk ==
    /\ pc = "start"
    /\ apps_exists
    /\ pc' = "walk"
    /\ pattern' = 1
    /\ visited' = {}
    /\ all_fqdns' = <<>>
    /\ UNCHANGED <<apps_exists, tree, unique_fqdns, endpoints_list, output,
                   written, stdout, clock, run, prev_run>>

\* one iteration of `for yaml_file in apps_dir.glob(pattern)`: the directory
\* enumeration yields the files of the pass in an order of its own
VisitFile(f) ==
    /\ pc = "walk"
    /\ f \in Matching(pattern) \ visited
    /\ visited' = visited \cup {f}
    /\ all_fqdns' = all_fqdns \o endpoint_infos(f)
    /\ stdout' = stdout \cup {Msg("analyse", PathStr(f))}
                        \cup (IF ~is_template(f) /\ raises(f)
                              THEN {Msg("erreur", PathStr(f))} ELSE {})
    /\ UNCHANGED <<apps_exists, tree, pc, pattern, unique_fqdns, endpoints_list,
                   output, written, clock, run, prev_run>>

\* the glob of one pattern is exhausted, the next pattern's begins
NextPattern ==
    /\ pc = "walk"
    /\ Matching(pattern) \subseteq visited
    /\ pattern < Len(yaml_patterns)
    /\ pattern' = pattern + 1
    /\ visited' = {}
    /\ UNCHANGED <<apps_exists, tree, pc, all_fqdns, unique_fqdns, endpoints_list,
                   output, written, stdout, clock, run, prev_run>>

\* a run that keeps the file of the run before when nothing was found: a
\* plausible slip
FinishSkipEmpty ==
    /\ pc = "walk"
    /\ Matching(pattern) \subseteq visited
    /\ pattern = Len(yaml_patterns)
    /\ LET unique == sort_by_fqdn(dedup(all_fqdns))
           endpoints == [i \in 1..Len(unique) |->
                            create_simple_endpoint(unique[i].fqdn,
                                unique[i].app_name, unique[i].source_file)]
       IN  /\ unique_fqdns' = unique
           /\ endpoints_list' = endpoints
           /\ IF unique = <<>>
              THEN UNCHANGED <<output, written>>
              ELSE /\ output' = [exists |-> TRUE, generated |-> clock,
                                 endpoints |-> endpoints]
                   /\ written' = TRUE
           /\ stdout' = stdout \cup {Msg("genere", <<>>)}
                            \cup (IF unique = <<>>
                                  THEN {Msg("aucun_fqdn", <<>>)} ELSE {})
    /\ pc' = "done"
    /\ UNCHANGED <<apps_exists, tree, pattern, visited, all_fqdns, clock, run,
                   prev_run>>

\* after the last glob pass: deduplicate, sort, build the endpoints, write
\* gatus-endpoints.yml, print the summary and the warning
Finish ==
    /\ pc = "walk"
    /\ Matching(pattern) \subseteq visited
    /\ pattern = Len(yaml_patterns)
    /\ LET unique == sort_by_fqdn(dedup(all_fqdns))
           endpoints == [i \in 1..Len(unique) |->
                            create_simple_endpoint(unique[i].fqdn,
                                unique[i].app_name, unique[i].source_file)]
       IN  /\ unique_fqdns' = unique
           /\ endpoints_list' = endpoints
           /\ output' = [exists |-> TRUE, generated |-> clock,
                         endpoints |-> endpoints]
           /\ written' = TRUE
           /\ stdout' = stdout \cup {Msg("genere", <<>>)}
                            \cup (IF unique = <<>>
                                  THEN {Msg("aucun_fqdn", <<>>)} ELSE {})
    /\ pc' = "done"
    /\ UNCHANGED <<apps_exists, tree, pattern, visited, all_fqdns, clock, run,
                   prev_run>>

\* the script is started again over the same tree, later
Rerun ==
    /\ pc \in {"done", "returned"}
    /\ run < MaxRuns
    /\ run' = run + 1
    /\ clock' = clock + 1
    /\ prev_run' = [output |-> output, unique_fqdns |-> unique_fqdns]
    /\ pc' = "start"
    /\ pattern' = 1
    /\ visited' = {}
    /\ all_fqdns' = <<>>
    /\ unique_fqdns' = <<>>
    /\ endpoints_list' = <<>>
    /\ written' = FALSE
    /\ stdout' = {}
    /\ UNCHANGED <<apps_exists, tree, output>>

(***************************************************************************)
(* The trees the script is run over.                                       *)
(***************************************************************************)
File(parts, stream) == [parts |-> parts, stream |-> stream]

Host(s) == Map(<<KV("host", Str(s))>>)

InlinePatch(s) ==
    Map(<<KV("patches", Seq1(<<Map(<<
        KV("target", Map(<<KV("kind", Str(<<"I","n","g","r","e","s","s">>))>>)),
        KV("patch", Str(<<"-"," ","o","p",":"," ","r","e","p","l","a","c","e","\n"," "," ","p","a","t","h",":"," ","/","s","p","e","c","/","r","u","l","e","s","/","0","/","h","o","s","t","\n"," "," ","v","a","l","u","e",":"," ">>
                        \o s \o <<"\n">>))>>)>>))>>)

Ingress(s) ==
    Map(<<KV("kind", Str(<<"I","n","g","r","e","s","s">>)),
          KV("spec", Map(<<
              KV("rules", Seq1(<<Map(<<KV("host", Str(s)),
                  KV("http", Map(<<KV("paths", Seq1(<<Map(<<
                      KV("path", Str(<<"/">>))>>)>>))>>))>>)>>)),
              KV("tls", Seq1(<<Map(<<KV("hosts", Seq1(<<Str(s)>>))>>)>>))>>))>>)

HelmValues(s) ==
    Map(<<KV("ingress", Map(<<KV("hosts", Seq1(<<Map(<<KV("host", Str(s)),
        KV("paths", Seq1(<<>>))>>)>>))>>))>>)

FilePool ==
    { File(<<<<"a","p","p","s">>, <<"a","p","p","1">>, <<"b","a","s","e">>, <<"i","n","g","r","e","s","s",".","y","a","m","l">>>>,
           <<Ingress(<<"a","p","p",".","c","o","r","p",".","n","e","t">>)>>),
      File(<<<<"a","p","p","s">>, <<"a","p","p","1">>, <<"p","r","o","d">>, <<"i","n","g","r","e","s","s",".","y","m","l">>>>,
           <<Host(<<"a","p","p",".","c","o","r","p",".","n","e","t">>), Host(<<"a","p","p",".","o","t","h","e","r",".","o","r","g">>)>>),
      File(<<<<"a","p","p","s">>, <<"a","p","p","2">>, <<"k","u","s","t","o","m","i","z","a","t","i","o","n",".","y","a","m","l">>>>,
           <<InlinePatch(<<"a","p","i",".","e","x","a","m","p","l","e",".","n","e","t">>)>>),
      File(<<<<"a","p","p","s">>, <<"a","p","p","2">>, <<"w","e","b">>, <<"b","r","o","k","e","n",".","y","a","m","l">>>>,
           <<Host(<<"z","e","t","a",".","c","o","r","p",".","n","e","t">>), ParseError>>),
      File(<<<<"a","p","p","s">>, <<"a","p","p","3">>, <<"t","e","m","p","l","a","t","e","s">>, <<"i","n","g","r","e","s","s",".","y","a","m","l">>>>,
           <<Host(<<"t","m","p","l",".","c","o","r","p",".","n","e","t">>)>>),
      File(<<<<"a","p","p","s">>, <<"a","p","p","3">>, <<"k","u","s","t","o","m","i","z","a","t","i","o","n",".","y","a","m","l",".","d">>, <<"e","x","t","r","a",".","y","a","m","l">>>>,
           <<Map(<<KV("value", Str(<<"f","o","o",".","b","a","r",".","c","o","m">>))>>)>>),
      File(<<<<"a","p","p","s">>, <<"a","p","p","4">>, <<"v","a","l","u","e","s",".","y","a","m","l">>>>,
           <<HelmValues(<<"c","h","a","r","t","-","e","x","a","m","p","l","e",".","l","o","c","a","l">>), Null>>),
      File(<<<<"a","p","p","s">>, <<"a","p","p","4">>, <<"c","e","r","t",".","y","a","m","l">>>>,
           <<Map(<<KV("dnsNames", Seq1(<<Str(<<"W","e","b",".","p","r","o","d","v","2",".","c","o","r","p",".","n","e","t">>),
                                         Str(<<"a","p","p",".","c","o","r","p",".","n","e","t">>)>>))>>)>>) }

Trees ==
    {t \in SUBSET FilePool :
        /\ Cardinality(t) <= MaxFiles
        /\ \A f, g \in t : f.parts = g.parts => f = g}

NoCall == [fn |-> "none"]

Init ==
    /\ apps_exists \in BOOLEAN
    /\ tree \in (IF apps_exists THEN Trees ELSE {{}})
    /\ pc = "start"
    /\ pattern = 1
    /\ visited = {}
    /\ all_fqdns = <<>>
    /\ unique_fqdns = <<>>
    /\ endpoints_list = <<>>
    /\ output = NoFile
    /\ written = FALSE
    /\ stdout = {}
    /\ clock = 1
    /\ run = 1
    /\ prev_run = NoRun
    /\ u_in = NoCall
    /\ u_out = <<>>
    /\ u_pc = "idle"

Next ==
    \/ (ReturnEarly /\ UNCHANGED unit_vars)
    \/ (BeginWalk /\ UNCHANGED unit_vars)
    \/ (\E f \in tree : VisitFile(f) /\ UNCHANGED unit_vars)
    \/ (NextPattern /\ UNCHANGED unit_vars)
    \/ (Finish /\ UNCHANGED unit_vars)
    \/ (Rerun /\ UNCHANGED unit_vars)

Spec == Init /\ [][Next]_vars

(***************************************************************************)
(* The functions called one at a time: the arguments are drawn from        *)
(* bounded sets, one action per function applies it.                       *)
(***************************************************************************)
\* every concatenation of at most n of the fragments
RECURSIVE Concats(_, _)
Concats(frags, n) ==
    IF n = 0 THEN {<<>>}
    ELSE LET shorter == Concats(frags, n - 1)
         IN  shorter \cup {p \o f : p \in shorter, f \in frags}

\* candidate strings: what each rule of the filter looks for, and around it
FilterFrags ==
    { <<"a","p","p">>, <<".">>, <<"c","o","r","p",".","n","e","t">>, <<"@">>, <<"g","h","c","r",".","i","o">>, <<"d","o","c","k","e","r",".","i","o">>, <<"r","e","g","i","s","t","r","y",".","k","8","s",".","i","o">>,
      <<"q","u","a","y",".","i","o">>, <<"e","x","a","m","p","l","e",".","c","o","m">>, <<"E","x","a","m","p","l","e",".","O","r","g">>, <<"e","x","a","m","p","l","e",".","l","o","c","a","l">>, <<"l","o","c","a","l","h","o","s","t">>,
      <<"c","h","a","r","t","-","e","x","a","m","p","l","e",".","l","o","c","a","l">>, <<"1","2","7",".","0",".","0",".","1">>, <<"0",".","0",".","0",".","0">>, <<".","L","O","C","A","L">>, <<"T","E","S","T",".","c","o","m">>,
      <<"{">>, <<"}">>, <<"{","{">>, <<"$","(">>, <<"$">>, <<"h","t","t","p">> }

FilterStrings == Concats(FilterFrags, MaxFrags)

\* FQDNs handed to create_simple_endpoint
LabelFrags == { <<"a","p","p">>, <<"s","v","c">>, <<".">>, <<"p","r","o","d","v","2">>, <<"-","p","r","o","d">>, <<"P","R","O","D","V","2">>, <<"n","e","t">> }

EndpointFqdns == Concats(LabelFrags, MaxLabels)

\* the text of inline patches
PatchFrags ==
    { <<"v","a","l","u","e",":"," ">>, <<" "," ">>, <<"\n">>, <<"a",".">>, <<"b",".","n","e","t">>, <<"-"," ","o","p",":"," ","r","e","p","l","a","c","e">>, <<"h","t","t","p",":","/","/","x",".","i","o">> }

PatchTexts == Concats(PatchFrags, MaxPatchFrags)

\* strings put at the places of a document the extractor looks at
HostPool ==
    { <<"a","p","p",".","c","o","r","p",".","n","e","t">>, <<"h","t","t","p",":","/","/","a","p","p",".","c","o","r","p",".","n","e","t">>, <<"n","o","d","o","t">>, <<"a","d","m","i","n","@","c","o","r","p",".","n","e","t">>,
      <<"a","p","i",".","e","x","a","m","p","l","e",".","n","e","t">>, <<"g","h","c","r",".","i","o","/","a","p","p">>, <<"c","h","a","r","t","-","e","x","a","m","p","l","e",".","l","o","c","a","l">>, <<"{","{"," ",".","V","a","l","u","e","s",".","h","o","s","t"," ","}","}">> }

\* documents with one string s at the place a rule looks at
DocsOf(s) ==
    { Host(s),
      Map(<<KV("commonName", Str(s))>>),
      Map(<<KV("hosts", Seq1(<<Str(s), Str(<<"s","e","c","o","n","d",".","c","o","r","p",".","n","e","t">>)>>))>>),
      Map(<<KV("dnsNames", Seq1(<<Str(s)>>))>>),
      Map(<<KV("hosts", Seq1(<<Host(s)>>))>>),
      Map(<<KV("dnsNames", Seq1(<<Seq1(<<Host(s)>>)>>))>>),
      Map(<<KV("hosts", Host(s))>>),
      Map(<<KV("host", Host(s))>>),
      Map(<<KV("value", Str(s))>>),
      Map(<<KV("value", Host(s))>>),
      Map(<<KV("path", Str(s))>>),
      Map(<<KV("path", Host(s))>>),
      Map(<<KV("patch", Host(s))>>),
      Map(<<KV("name", Str(s))>>),
      Seq1(<<Host(<<"f","i","r","s","t",".","c","o","r","p",".","n","e","t">>), Str(s), Host(s)>>),
      Seq1(<<Seq1(<<Host(s)>>)>>),
      Str(s),
      Ingress(s),
      HelmValues(s),
      InlinePatch(s),
      Map(<<KV("spec", Map(<<KV("hosts", Seq1(<<Host(s)>>)),
                             KV("rules", Seq1(<<Host(s)>>))>>))>>) }

DocPool ==
    UNION {DocsOf(s) : s \in HostPool}
        \cup {Map(<<KV("patch", Str(p))>>) : p \in PatchTexts}
        \cup {Null, Map(<<>>), Seq1(<<>>)}

PathPool ==
    { <<<<"a","p","p","s">>, <<"a","p","p","1">>, <<"b","a","s","e">>, <<"i","n","g","r","e","s","s",".","y","a","m","l">>>>,
      <<<<"a","p","p","s">>, <<"a","p","p","2">>, <<"k","u","s","t","o","m","i","z","a","t","i","o","n",".","y","a","m","l">>>>,
      <<<<"a","p","p","s">>, <<"a","p","p","2">>, <<"p","r","o","d">>, <<"K","u","s","t","o","m","i","z","a","t","i","o","n",".","y","a","m","l">>>>,
      <<<<"a","p","p","s">>, <<"a","p","p","2">>, <<"m","y","-","k","u","s","t","o","m","i","z","a","t","i","o","n",".","y","a","m","l">>>>,
      <<<<"a","p","p","s">>, <<"a","p","p","2">>, <<"k","u","s","t","o","m","i","z","a","t","i","o","n",".","y","m","l">>>>,
      <<<<"a","p","p","s">>, <<"a","p","p","3">>, <<"t","e","m","p","l","a","t","e","s">>, <<"k","u","s","t","o","m","i","z","a","t","i","o","n",".","y","a","m","l">>>>,
      <<<<"a","p","p","s">>, <<"a","p","p","3">>, <<"k","u","s","t","o","m","i","z","a","t","i","o","n",".","y","a","m","l",".","d">>, <<"e","x","t","r","a",".","y","a","m","l">>>>,
      <<<<"a","p","p","s">>, <<"a","p","p","4">>, <<"v","a","l","u","e","s",".","y","a","m","l">>>> }

StreamPool ==
    { <<Host(<<"a","p","p",".","c","o","r","p",".","n","e","t">>)>>,
      <<Map(<<KV("value", Str(<<"f","o","o",".","b","a","r",".","c","o","m">>))>>)>>,
      <<InlinePatch(<<"a","p","i",".","e","x","a","m","p","l","e",".","n","e","t">>)>>,
      <<Host(<<"z","e","t","a",".","c","o","r","p",".","n","e","t">>), ParseError, Host(<<"n","e","v","e","r",".","c","o","r","p",".","n","e","t">>)>>,
      <<ParseError>>,
      <<Null, Map(<<KV("value", Str(<<"f","o","o",".","b","a","r",".","c","o","m">>)), KV("host", Str(<<"a","p","p",".","c","o","r","p",".","n","e","t">>))>>)>>,
      <<>> }

UnitFiles == {File(p, s) : p \in PathPool, s \in StreamPool}

UnitInputs ==
    {[fn |-> "is_valid_fqdn", fqdn |-> s] : s \in FilterStrings}
        \cup {[fn |-> "create_simple_endpoint", fqdn |-> s, app_name |-> a,
               source_file |-> f] :
                s \in EndpointFqdns, a \in {<<"a","p","p","1">>, <<"u","n","k","n","o","w","n">>},
                f \in {<<"a","p","p","s","/","a","p","p","1","/","b","a","s","e","/","i","n","g","r","e","s","s",".","y","a","m","l">>, <<"a","p","p","s","/","x",".","y","m","l">>}}
        \cup {[fn |-> "extract_fqdn_recursive", obj |-> d,
               is_ingress_context |-> i, is_kustomization_context |-> k] :
                d \in DocPool, i \in BOOLEAN, k \in BOOLEAN}
        \cup {[fn |-> "find_fqdn_in_yaml", file |-> f] : f \in UnitFiles}

Call_is_valid_fqdn ==
    /\ u_pc = "call"
    /\ u_in.fn = "is_valid_fqdn"
    /\ u_out' = is_valid_fqdn(u_in.fqdn)
    /\ u_pc' = "ret"
    /\ UNCHANGED u_in

Call_create_simple_endpoint ==
    /\ u_pc = "call"
    /\ u_in.fn = "create_simple_endpoint"
    /\ u_out' = create_simple_endpoint(u_in.fqdn, u_in.app_name, u_in.source_file)
    /\ u_pc' = "ret"
    /\ UNCHANGED u_in

Call_extract_fqdn_recursive ==
    /\ u_pc = "call"
    /\ u_in.fn = "extract_fqdn_recursive"
    /\ u_out' = extract_fqdn_recursive(u_in.obj, u_in.is_ingress_context,
                                       u_in.is_kustomization_context)
    /\ u_pc' = "ret"
    /\ UNCHANGED u_in

Call_find_fqdn_in_yaml ==
    /\ u_pc = "call"
    /\ u_in.fn = "find_fqdn_in_yaml"
    /\ u_out' = find_fqdn_in_yaml(u_in.file)
    /\ u_pc' = "ret"
    /\ UNCHANGED u_in

UnitInit ==
    /\ apps_exists = FALSE
    /\ tree = {}
    /\ pc = "idle"
    /\ pattern = 1
    /\ visited = {}
    /\ all_fqdns = <<>>
    /\ unique_fqdns = <<>>
    /\ endpoints_list = <<>>
    /\ output = NoFile
    /\ written = FALSE
    /\ stdout = {}
    /\ clock = 1
    /\ run = 1
    /\ prev_run = NoRun
    /\ u_in \in UnitInputs
    /\ u_out = <<>>
    /\ u_pc = "call"

UnitNext ==
    \/ (Call_is_valid_fqdn /\ UNCHANGED pipeline_vars)
    \/ (Call_create_simple_endpoint /\ UNCHANGED pipeline_vars)
    \/ (Call_extract_fqdn_recursive /\ UNCHANGED pipeline_vars)
    \/ (Call_find_fqdn_in_yaml /\ UNCHANGED pipeline_vars)

UnitSpec == UnitInit /\ [][UnitNext]_vars

(***************************************************************************)
(* Properties                                                              *)
(***************************************************************************)
Returned(f) == u_pc = "ret" /\ u_in.fn = f

\* C1: a file whose parsing raises contributes zero candidates to the run,
\* and the walk goes on to the files left: no record of all_fqdns comes from
\* a file whose stream raises, and nothing is written before every file
\* has been visited.
C1_RaisingFileContributesNothing ==
    /\ \A i \in 1..Len(all_fqdns) : \A f \in tree :
            all_fqdns[i].source_file = PathStr(f) => ~raises(f)
    /\ pc = "done" =>
            \A f \in tree :
                EndsWith(BaseName(f), <<".","y","a","m","l">>) \/ EndsWith(BaseName(f), <<".","y","m","l">>)
                    => Msg("analyse", PathStr(f)) \in stdout

\* The rejection rules of the filter, as the specification lists them.
DenyList ==
    { <<"e","x","a","m","p","l","e",".","c","o","m">>, <<"e","x","a","m","p","l","e",".","l","o","c","a","l">>, <<"c","h","a","r","t","-","e","x","a","m","p","l","e",".","l","o","c","a","l">>, <<"l","o","c","a","l","h","o","s","t">>,
      <<"1","2","7",".","0",".","0",".","1">>, <<"0",".","0",".","0",".","0">>, <<".","l","o","c","a","l">>, <<"e","x","a","m","p","l","e",".","o","r","g">>, <<"t","e","s","t",".","c","o","m">> }

RegistryHosts == { <<"g","h","c","r",".","i","o">>, <<"d","o","c","k","e","r",".","i","o">>, <<"r","e","g","i","s","t","r","y",".","k","8","s",".","i","o">>, <<"q","u","a","y",".","i","o">> }

Acceptable(s) ==
    /\ In(<<".">>, s)
    /\ ~In(<<"{">>, s) /\ ~In(<<"}">>, s) /\ ~In(<<"$","(">>, s)
    /\ ~StartsWith(s, <<"{","{">>)
    /\ ~In(<<"@">>, s)
    /\ \A r \in RegistryHosts : ~StartsWith(s, r)
    /\ \A d \in DenyList : ~In(d, Lower(s))

\* C2: is_valid_fqdn accepts a string exactly when no rejection rule matches
\* it, and every candidate the extractor or the loader returns is such a
\* string.
C2_FilterRules ==
    /\ Returned("is_valid_fqdn") => (u_out <=> Acceptable(u_in.fqdn))
    /\ Returned("extract_fqdn_recursive") \/ Returned("find_fqdn_in_yaml") =>
            \A c \in Range(u_out) : Acceptable(c)

C2_Witness ==
    /\ Returned("is_valid_fqdn")
    /\ u_out = TRUE
    /\ u_in.fqdn = <<"a","p","p","c","o","r","p",".","n","e","t">>

\* C3: when the run is done the endpoints are strictly ascending by FQDN, one
\* per distinct FQDN collected, each built from the first record of that FQDN
\* in all_fqdns, where every record of a *.yaml file precedes every record of
\* a *.yml file.
C3_SortedUniqueFirstSeen ==
    pc = "done" =>
        /\ Len(output.endpoints) = Len(unique_fqdns)
        /\ \A i \in 1..Len(unique_fqdns) :
                output.endpoints[i].url = <<"h","t","t","p","s",":","/","/">> \o unique_fqdns[i].fqdn
        /\ \A i, j \in 1..Len(unique_fqdns) :
                i < j => StrLess(unique_fqdns[i].fqdn, unique_fqdns[j].fqdn)
        /\ {unique_fqdns[i].fqdn : i \in 1..Len(unique_fqdns)}
                = {all_fqdns[k].fqdn : k \in 1..Len(all_fqdns)}
        /\ \A i \in 1..Len(unique_fqdns) : \E k \in 1..Len(all_fqdns) :
                /\ all_fqdns[k] = unique_fqdns[i]
                /\ \A l \in 1..(k - 1) : all_fqdns[l].fqdn # unique_fqdns[i].fqdn
        /\ \A k, l \in 1..Len(all_fqdns) :
                k < l => ~(/\ EndsWith(all_fqdns[k].source_file, <<".","y","m","l">>)
                           /\ EndsWith(all_fqdns[l].source_file, <<".","y","a","m","l">>))

C3_Witness ==
    /\ pc = "done"
    /\ Len(unique_fqdns) >= 3
    /\ \E k, l \in 1..Len(all_fqdns) :
            /\ k < l
            /\ all_fqdns[k].fqdn = all_fqdns[l].fqdn
            /\ all_fqdns[k].source_file # all_fqdns[l].source_file
            /\ EndsWith(all_fqdns[l].source_file, <<".","y","m","l">>)
    /\ \E k \in 1..(Len(all_fqdns) - 1) :
            StrLess(all_fqdns[k + 1].fqdn, all_fqdns[k].fqdn)

\* What the claim C4 says a patch text yields: for every line that, trimmed,
\* begins with "value: ", the rest of the line after that prefix, trimmed, kept
\* when it has a dot, does not begin with http and passes the filter.
RestAfterPrefix(raw) ==
    LET line == Strip(raw)
    IN  Strip(SubSeq(line, Len(<<"v","a","l","u","e",":"," ">>) + 1, Len(line)))

ExpectedOfPatch(text) ==
    LET lines == Split(text, <<"\n">>)
    IN  Flatten([i \in 1..Len(lines) |->
            IF /\ StartsWith(Strip(lines[i]), <<"v","a","l","u","e",":"," ">>)
               /\ In(<<".">>, RestAfterPrefix(lines[i]))
               /\ ~StartsWith(RestAfterPrefix(lines[i]), <<"h","t","t","p">>)
               /\ Acceptable(RestAfterPrefix(lines[i]))
            THEN <<RestAfterPrefix(lines[i])>>
            ELSE <<>>])

\* C4: in kustomization context a string under `patch` yields, line by line,
\* exactly the rest of each "value: " line after that prefix.
C4_PatchLineRemainder ==
    /\ Returned("extract_fqdn_recursive")
    /\ u_in.is_kustomization_context
    /\ u_in.obj.t = "map"
    /\ Len(u_in.obj.items) = 1
    /\ u_in.obj.items[1].k = "patch"
    /\ u_in.obj.items[1].v.t = "str"
    => u_out = ExpectedOfPatch(u_in.obj.items[1].v.s)

\* every parsed document of the file is a mapping of `value` / `patch` strings
OnlyValueAndPatchStrings(file) ==
    \A i \in 1..Len(file.stream) :
        /\ file.stream[i].t = "map"
        /\ \A j \in 1..Len(file.stream[i].items) :
                /\ file.stream[i].items[j].k \in {"value", "patch"}
                /\ file.stream[i].items[j].v.t = "str"

\* C5: the kustomization flag of a file is true exactly when its base name
\* contains kustomization.yaml (any case): a file whose documents hold only
\* `value` / `patch` strings yields candidates only if its base name
\* contains it, whatever its directory segments are.
C5_FlagFromBaseName ==
    /\ Returned("find_fqdn_in_yaml")
    /\ OnlyValueAndPatchStrings(u_in.file)
    /\ u_out # <<>>
    => In(<<"k","u","s","t","o","m","i","z","a","t","i","o","n",".","y","a","m","l">>, Lower(BaseName(u_in.file)))

\* C6: a run writes gatus-endpoints.yml exactly when apps/ exists; the early
\* return leaves the file as it was, and a run that finds no FQDN writes an
\* empty endpoints list and prints the warning.
C6_WrittenIffRootExists ==
    /\ written => apps_exists
    /\ pc = "returned" => ~apps_exists /\ ~written /\ output = prev_run.output
    /\ pc = "done" =>
            /\ apps_exists
            /\ written
            /\ output.exists
            /\ output.generated = clock
            /\ output.endpoints = endpoints_list
            /\ Len(endpoints_list) = Len(unique_fqdns)
            /\ (Msg("aucun_fqdn", <<>>) \in stdout) <=> (unique_fqdns = <<>>)

C6_Witness ==
    /\ pc = "done"
    /\ tree # {}
    /\ written
    /\ output.endpoints = <<>>
    /\ Msg("aucun_fqdn", <<>>) \in stdout

\* C7: the second run over the unchanged tree writes the endpoints the first
\* run wrote, whatever the order the two enumerations took and whichever
\* occurrence each deduplication kept; only the timestamp differs.
C7_SameEndpointsOnRerun ==
    run > 1 /\ pc = "done" =>
        /\ output.endpoints = prev_run.output.endpoints
        /\ output.generated # prev_run.output.generated

C7_Witness ==
    /\ run > 1
    /\ pc = "done"
    /\ unique_fqdns # prev_run.unique_fqdns
    /\ Len(output.endpoints) >= 2

\* the substring before the first "."
FirstLabel(s) ==
    CHOOSE p \in {SubSeq(s, 1, n) : n \in 0..Len(s)} :
        /\ ~In(<<".">>, p)
        /\ (Len(p) = Len(s) \/ s[Len(p) + 1] = ".")

\* C8: the endpoint's name is the first label of the FQDN, with -prod
\* appended exactly when the FQDN contains prodv2; its url is https:// and the
\* FQDN; the other fields are the same fixed values for every endpoint.
C8_EndpointNaming ==
    Returned("create_simple_endpoint") =>
        /\ u_out.name = FirstLabel(u_in.fqdn)
                \o (IF In(<<"p","r","o","d","v","2">>, u_in.fqdn) THEN <<"-","p","r","o","d">> ELSE <<>>)
        /\ u_out.url = <<"h","t","t","p","s",":","/","/">> \o u_in.fqdn
        /\ u_out.interval = <<"5","m">>
        /\ u_out.conditions = <<<<"[","S","T","A","T","U","S","]"," ","=","="," ","2","0","0">>, <<"[","R","E","S","P","O","N","S","E","_","T","I","M","E","]"," ","<"," ","3","0","0","0">>>>
        /\ u_out.alerts = <<[type |-> <<"d","i","s","c","o","r","d">>, failure_threshold |-> 3,
                             success_threshold |-> 2]>>

C8_Witness ==
    /\ Returned("create_simple_endpoint")
    /\ u_in.fqdn = <<"a","p","p",".","p","r","o","d","v","2">>
    /\ u_out.name = <<"a","p","p","-","p","r","o","d">>

\* C9: no two endpoints of the emitted sequence carry the same name.
C9_NamesUnique ==
    pc = "done" =>
        \A i, j \in 1..Len(output.endpoints) :
            i # j => output.endpoints[i].name # output.endpoints[j].name

\* Every string stored under `host` / `commonName` in a mapping of the
\* document, at any depth, with whether the way to it goes through an
\* element of a list that is the value of `hosts` / `dnsNames`.
RECURSIVE HostOccurrences(_, _)
HostOccurrences(obj, below_hosts_list) ==
    IF obj.t = "map"
    THEN UNION {
            (IF obj.items[i].k \in {"host", "commonName"} /\ obj.items[i].v.t = "str"
             THEN {[s |-> obj.items[i].v.s, below_hosts_list |-> below_hosts_list]}
             ELSE {})
            \cup HostOccurrences(obj.items[i].v,
                    \/ below_hosts_list
                    \/ (/\ obj.items[i].k \in {"hosts", "dnsNames"}
                        /\ obj.items[i].v.t = "seq")) : i \in 1..Len(obj.items)}
    ELSE IF obj.t = "seq"
    THEN UNION {HostOccurrences(obj.items[i], below_hosts_list) :
                    i \in 1..Len(obj.items)}
    ELSE {}

Kept(s) == In(<<".">>, s) /\ ~StartsWith(s, <<"h","t","t","p">>) /\ Acceptable(s)

\* C10 as stated: every `host` / `commonName` string of the document, at any
\* depth, also inside the elements of a `hosts` / `dnsNames` list, is in the
\* result when it has a dot, does not begin with http and passes the filter.
C10_EveryHostStringFound ==
    Returned("extract_fqdn_recursive") =>
        \A o \in HostOccurrences(u_in.obj, FALSE) :
            Kept(o.s) => o.s \in Range(u_out)

\* C10 amended: the same, for the strings not reached through an element of
\* a list that is the value of `hosts` / `dnsNames` (of such a list only the
\* string elements are looked at; its mappings and lists are not descended).
C10_HostStringsOutsideHostsLists ==
    Returned("extract_fqdn_recursive") =>
        \A o \in HostOccurrences(u_in.obj, FALSE) :
            Kept(o.s) /\ ~o.below_hosts_list => o.s \in Range(u_out)

C10_Witness ==
    /\ Returned("extract_fqdn_recursive")
    /\ \E o \in HostOccurrences(u_in.obj, FALSE) :
            o.s = <<"a","p","p",".","c","o","r","p",".","n","e","t">> /\ o.below_hosts_list
    /\ \E o \in HostOccurrences(u_in.obj, FALSE) :
            o.s = <<"a","p","p",".","c","o","r","p",".","n","e","t">> /\ ~o.below_hosts_list
    /\ u_out = <<<<"a","p","p",".","c","o","r","p",".","n","e","t">>>>

====
